---- MODULE Spec2Model ----
(***************************************************************************)
(* Model of authn/idprovider/oidc/provider.go: the OIDC identity provider. *)
(* One caller invokes either AuthenticateCode(code) or                     *)
(* Authenticate(username, password) on a provider o.  AuthenticateCode     *)
(* blocks twice on the network (token exchange, userinfo); each blocking   *)
(* call is a step boundary, everything between two of them is one step.    *)
(*                                                                         *)
(* A claim set (jwt.MapClaims) is a function from a subset of Keys to JSON *)
(* values; a JSON value is a record [t, v] with t the JSON type.  The      *)
(* registered time claims (exp, nbf) and the signature of the identity     *)
(* token are carried by the token's `time` and `sig` attributes.           *)
(***************************************************************************)
EXTENDS Naturals, Sequences, FiniteSets, TLC

VARIABLES
    o,              \* the OIDCProvider's fields
    pc,             \* position of the caller: idle, exchange, userinfo, done
    op,             \* the method the caller invoked, with Authenticate's arguments
    ctx,            \* the context AuthenticateCode hands to the libraries
    callerCtx,      \* the caller's own context: none, active, canceled, released
    exchange,       \* the in-flight token exchange: its code, and whether the
                    \* token endpoint has answered it
    calls,          \* outbound calls issued so far, in order
    token,          \* what Exchange returned, less the identity token's payload
    idTokenClaims,  \* claims decoded from the identity token
    userInfoResp,   \* what the userinfo call came back with
    claims,         \* the claim set AuthenticateCode resolves from
    ret             \* what the method returned: [identity, err]

vars == <<o, pc, op, ctx, callerCtx, exchange, calls, token,
          idTokenClaims, userInfoResp, claims, ret>>

----------------------------------------------------------------------------
(* Bounds *)

\* At most this many claims in the identity token and the userinfo body together.
MaxClaims == 3

----------------------------------------------------------------------------
(* Errors: the messages of provider.go *)

NoErr          == "nil"
ErrExchange    == "oidc: failed to get token"
ErrNoIDToken   == "no id_token in token response"
ErrVerify      == "failed to verify id token"
ErrDecodeID    == "failed to decode id token claims"
ErrFetchUI     == "failed to fetch userinfo"
ErrDecodeUI    == "failed to decode userinfo claims"
ErrNoSub       == "missing required claim \"sub\""
ErrUnsupported == "unsupported authenticate with username password"

----------------------------------------------------------------------------
(* JSON values and claim sets *)

Str(s) == [t |-> "string", v |-> s]
Num    == [t |-> "number", v |-> "7"]

Keys == {"sub", "email", "mail", "preferred_username", "name"}

IDTokenValues  == {Str(""), Str("id"), Num}
UserInfoValues == {Str(""), Str("ui"), Num}

EmptyClaims == [k \in {} |-> Num]

ClaimSets(values, n) ==
    UNION {[d -> values] : d \in {s \in SUBSET Keys : Cardinality(s) <= n}}

\* A merge that keeps the value already in the map on a collision.
Merge_KeepExisting(into, from) ==
    [k \in DOMAIN into \cup DOMAIN from |->
        IF k \in DOMAIN into THEN into[k] ELSE from[k]]

\* json.Unmarshal into a non-nil map keeps the entries of the map and sets
\* every key of the object, replacing the value of a key present in both.
Merge(into, from) ==
    [k \in DOMAIN into \cup DOMAIN from |->
        IF k \in DOMAIN from THEN from[k] ELSE into[k]]

\* v, ok := m[key].(string)
AsString(m, key) ==
    IF key \in DOMAIN m /\ m[key].t = "string"
    THEN [v |-> m[key].v, ok |-> TRUE]
    ELSE [v |-> "", ok |-> FALSE]

\* A key whose value would not decode into a Go string field.
NotAString(m, key) == key \in DOMAIN m /\ m[key].t # "string"

----------------------------------------------------------------------------
(* The provider *)

Providers ==
    [GetUserInfo          : BOOLEAN,
     InsecureSkipVerify   : BOOLEAN,
     EmailKey             : {"", "mail"},
     PreferredUsernameKey : {"", "mail"},
     Provider             : {"nil", "set"},
     Verifier             : {"nil", "set"}]

Codes     == {"c1", "c2"}
Usernames == {"", "alice"}
Passwords == {"", "secret"}

NoIdentity == <<>>
Failure(e) == [identity |-> NoIdentity, err |-> e]
Success(id) == [identity |-> <<id>>, err |-> NoErr]
NoReturn == [identity |-> NoIdentity, err |-> "pending"]

----------------------------------------------------------------------------
(* The token endpoint's answers *)

NoToken == [kind |-> "none", form |-> "none", sig |-> "none", time |-> "none"]

\* kind: error (Exchange failed), no_id_token (no such extra field),
\* id_token_not_string, id_token.  form/sig/time describe the identity token.
TokenAnswers ==
    {[kind |-> k, form |-> "none", sig |-> "none", time |-> "none"] :
        k \in {"error", "no_id_token", "id_token_not_string"}}
    \cup {[kind |-> "id_token", form |-> "malformed", sig |-> "none", time |-> "none"]}
    \cup [kind : {"id_token"}, form : {"wellformed"},
          sig : {"valid", "invalid"}, time : {"valid", "expired", "notyet"}]

Payloads(t) ==
    IF t.form = "wellformed" THEN ClaimSets(IDTokenValues, MaxClaims) ELSE {EmptyClaims}

----------------------------------------------------------------------------
(* The userinfo endpoint's answers *)

NoUserInfo == [kind |-> "none", status |-> "none", decodable |-> FALSE, body |-> EmptyClaims]

\* kind: unreachable (the GET failed), readfail (the body could not be read),
\* response.  A response has a status and a body, a JSON object or not.
UserInfoAnswers(n) ==
    {[kind |-> k, status |-> "none", decodable |-> FALSE, body |-> EmptyClaims] :
        k \in {"unreachable", "readfail"}}
    \cup [kind : {"response"}, status : {"ok", "error"}, decodable : {FALSE}, body : {EmptyClaims}]
    \cup [kind : {"response"}, status : {"ok", "error"}, decodable : {TRUE},
          body : ClaimSets(UserInfoValues, n)]

----------------------------------------------------------------------------
(* AuthenticateCode, between its blocking calls *)

\* context.TODO() is never done; a context derived from the caller's would be
\* done once the caller cancels.
CtxDone(c) == c.parent = "caller" /\ callerCtx = "canceled"

\* Lines 103-113: the context of the call and the HTTP client it carries.
NewContext(p) ==
    [parent |-> "TODO",
     client |-> IF p.InsecureSkipVerify THEN "insecure" ELSE "default"]

\* Verify with the signature check left out.
VerifierVerify_NoSignature(t, payload) ==
    /\ t.form = "wellformed"
    /\ ~NotAString(payload, "sub")
    /\ t.time = "valid"

\* oidc.IDTokenVerifier.Verify: the token parses into go-oidc's idToken struct
\* (sub a string), is not expired and carries a valid signature.
VerifierVerify(t, payload) ==
    /\ t.form = "wellformed"
    /\ ~NotAString(payload, "sub")
    /\ t.time = "valid"
    /\ t.sig = "valid"

\* jwt.Parser.ParseUnverified: the token decodes, its signature is not looked at.
ParseUnverified(t) == t.form = "wellformed"

\* jwt.MapClaims.Valid: exp, iat and nbf against the clock.
ClaimsValid(t) == t.time = "valid"

\* Lines 114-139 with the check of lines 118-121 left out: a missing id_token is
\* handed on as an empty raw token.
IDTokenClaims_NoPresenceCheck(p, t, payload) ==
    IF t.kind = "error" THEN [err |-> ErrExchange, claims |-> EmptyClaims]
    ELSE IF p.Verifier # "nil"
    THEN IF t.kind # "id_token" \/ ~VerifierVerify(t, payload)
         THEN [err |-> ErrVerify, claims |-> EmptyClaims]
         ELSE [err |-> NoErr, claims |-> payload]
    ELSE IF t.kind # "id_token" \/ ~ParseUnverified(t)
    THEN [err |-> ErrDecodeID, claims |-> EmptyClaims]
    ELSE IF ~ClaimsValid(t) THEN [err |-> ErrVerify, claims |-> payload]
    ELSE [err |-> NoErr, claims |-> payload]

\* Lines 114-139: from the answer to the exchange to the identity token's claims.
IDTokenClaims(p, t, payload) ==
    IF t.kind = "error" THEN [err |-> ErrExchange, claims |-> EmptyClaims]
    ELSE IF t.kind # "id_token" THEN [err |-> ErrNoIDToken, claims |-> EmptyClaims]
    ELSE IF p.Verifier # "nil"
    THEN IF ~VerifierVerify(t, payload)
         THEN [err |-> ErrVerify, claims |-> EmptyClaims]
         ELSE [err |-> NoErr, claims |-> payload]
    ELSE IF ~ParseUnverified(t) THEN [err |-> ErrDecodeID, claims |-> EmptyClaims]
    ELSE IF ~ClaimsValid(t) THEN [err |-> ErrVerify, claims |-> payload]
    ELSE [err |-> NoErr, claims |-> payload]

\* oidc.Provider.UserInfo: the GET answers 200 and the body decodes into
\* go-oidc's UserInfo struct (sub and email strings).
ProviderUserInfo(r) ==
    /\ r.kind = "response"
    /\ r.status = "ok"
    /\ r.decodable
    /\ ~NotAString(r.body, "sub")
    /\ ~NotAString(r.body, "email")

\* Lines 141-162: the claims after the userinfo call came back with r.
MergeUserInfo(p, cl, r) ==
    IF p.Provider # "nil"
    THEN IF ~ProviderUserInfo(r)
         THEN [err |-> ErrFetchUI, claims |-> cl]
         ELSE [err |-> NoErr, claims |-> Merge(cl, r.body)]
    ELSE IF r.kind # "response" THEN [err |-> ErrFetchUI, claims |-> cl]
    ELSE IF ~r.decodable THEN [err |-> ErrDecodeUI, claims |-> cl]
    ELSE [err |-> NoErr, claims |-> Merge(cl, r.body)]

\* Lines 170-175 with the default key consulted when the override finds nothing.
ResolveEmail_DefaultFallback(p, cl) ==
    LET emailKey == IF p.EmailKey # "" THEN p.EmailKey ELSE "email"
    IN  IF AsString(cl, emailKey).ok THEN AsString(cl, emailKey).v
        ELSE AsString(cl, "email").v

\* Lines 170-175.
ResolveEmail(p, cl) ==
    LET emailKey == IF p.EmailKey # "" THEN p.EmailKey ELSE "email"
    IN  AsString(cl, emailKey).v

\* Lines 177-186 with the fallback taken only when the claim is no string at all.
ResolvePreferredUsername_FallbackIfAbsent(p, cl) ==
    LET preferredUsernameKey ==
            IF p.PreferredUsernameKey # "" THEN p.PreferredUsernameKey
            ELSE "preferred_username"
        preferredUsername == AsString(cl, preferredUsernameKey)
    IN  IF ~preferredUsername.ok THEN AsString(cl, "name").v ELSE preferredUsername.v

\* Lines 177-186.
ResolvePreferredUsername(p, cl) ==
    LET preferredUsernameKey ==
            IF p.PreferredUsernameKey # "" THEN p.PreferredUsernameKey
            ELSE "preferred_username"
        preferredUsername == AsString(cl, preferredUsernameKey).v
    IN  IF preferredUsername = "" THEN AsString(cl, "name").v ELSE preferredUsername

\* Line 140 without the early returns of lines 115-139: the userinfo call is
\* issued whenever enrichment is enabled.
UserInfoCalls_BeforeChecks(p, err) ==
    IF p.GetUserInfo THEN <<"userinfo">> ELSE <<>>

\* Lines 115-140: the userinfo call is issued when no earlier check returned
\* and enrichment is enabled.
UserInfoCalls(p, err) ==
    IF err = NoErr /\ p.GetUserInfo THEN <<"userinfo">> ELSE <<>>

\* Lines 165-192: the identity resolved from the final claim set.
ResolveIdentity(p, cl) ==
    LET subject == AsString(cl, "sub")
    IN  IF ~subject.ok THEN Failure(ErrNoSub)
        ELSE Success([Sub               |-> subject.v,
                      PreferredUsername |-> ResolvePreferredUsername(p, cl),
                      Email             |-> ResolveEmail(p, cl)])

----------------------------------------------------------------------------
(* Actions *)

NoExchange == [code |-> "", answered |-> FALSE]

Init ==
    /\ o \in Providers
    /\ pc = "idle"
    /\ op = [method |-> "none", args |-> <<>>]
    /\ ctx = [parent |-> "none", client |-> "none"]
    /\ callerCtx = "none"
    /\ exchange = NoExchange
    /\ calls = <<>>
    /\ token = NoToken
    /\ idTokenClaims = EmptyClaims
    /\ userInfoResp = NoUserInfo
    /\ claims = EmptyClaims
    /\ ret = NoReturn

\* Lines 102-114: AuthenticateCode up to the call of Exchange, which blocks.
AuthenticateCode(code) ==
    /\ pc = "idle"
    /\ pc' = "exchange"
    /\ op' = [method |-> "AuthenticateCode", args |-> <<>>]
    /\ ctx' = NewContext(o)
    /\ exchange' = [code |-> code, answered |-> FALSE]
    /\ calls' = Append(calls, "token")
    /\ callerCtx' = "active"
    /\ UNCHANGED <<o, token, idTokenClaims, userInfoResp, claims, ret>>

\* The token endpoint answers the exchange.
TokenEndpointAnswers ==
    /\ pc = "exchange"
    /\ ~exchange.answered
    /\ exchange' = [exchange EXCEPT !.answered = TRUE]
    /\ UNCHANGED <<o, pc, op, ctx, callerCtx, calls, token, idTokenClaims,
                   userInfoResp, claims, ret>>

\* The caller cancels its context while the call is running; it releases the
\* context when the call returns.
CancelCallerContext ==
    /\ pc \in {"exchange", "userinfo"}
    /\ callerCtx = "active"
    /\ callerCtx' = "canceled"
    /\ UNCHANGED <<o, pc, op, ctx, exchange, calls, token, idTokenClaims,
                   userInfoResp, claims, ret>>

\* Lines 114-163 (and 165-192 without userinfo): Exchange returns, with the
\* endpoint's answer or because its context is done; the identity token is
\* checked; then either the userinfo call is issued, which blocks, or the
\* identity is resolved.
ExchangeReturns ==
    /\ pc = "exchange"
    /\ exchange.answered \/ CtxDone(ctx)
    /\ \E t \in IF CtxDone(ctx) THEN {a \in TokenAnswers : a.kind = "error"} ELSE TokenAnswers :
         \E payload \in Payloads(t) :
           LET r == IDTokenClaims(o, t, payload)
           IN  /\ token' = t
               /\ exchange' = NoExchange
               /\ idTokenClaims' = IF r.err = NoErr THEN r.claims ELSE EmptyClaims
               /\ claims' = IF r.err = NoErr THEN r.claims ELSE EmptyClaims
               /\ calls' = calls \o UserInfoCalls(o, r.err)
               /\ IF r.err # NoErr
                  THEN /\ ret' = Failure(r.err)
                       /\ pc' = "done"
                       /\ callerCtx' = "released"
                  ELSE IF o.GetUserInfo
                  THEN /\ ret' = ret
                       /\ pc' = "userinfo"
                       /\ callerCtx' = callerCtx
                  ELSE /\ ret' = ResolveIdentity(o, r.claims)
                       /\ pc' = "done"
                       /\ callerCtx' = "released"
    /\ UNCHANGED <<o, op, ctx, userInfoResp>>

\* Lines 142-192: the userinfo call returns; its claims are merged and the
\* identity is resolved.
UserInfoReturns ==
    /\ pc = "userinfo"
    /\ \E r \in UserInfoAnswers(MaxClaims - Cardinality(DOMAIN idTokenClaims)) :
         LET m == MergeUserInfo(o, claims, r)
         IN  /\ userInfoResp' = r
             /\ claims' = m.claims
             /\ ret' = IF m.err # NoErr THEN Failure(m.err)
                       ELSE ResolveIdentity(o, m.claims)
    /\ pc' = "done"
    /\ callerCtx' = "released"
    /\ UNCHANGED <<o, op, ctx, exchange, calls, token, idTokenClaims>>

\* Authenticate trying the password grant at the token endpoint before it
\* gives up.
Authenticate_PasswordGrant(username, password) ==
    /\ pc = "idle"
    /\ pc' = "done"
    /\ op' = [method |-> "Authenticate", args |-> <<username, password>>]
    /\ calls' = IF password # "" THEN Append(calls, "token") ELSE calls
    /\ ret' = Failure(ErrUnsupported)
    /\ UNCHANGED <<o, ctx, callerCtx, exchange, token, idTokenClaims,
                   userInfoResp, claims>>

\* Lines 197-199.
Authenticate(username, password) ==
    /\ pc = "idle"
    /\ pc' = "done"
    /\ op' = [method |-> "Authenticate", args |-> <<username, password>>]
    /\ ret' = Failure(ErrUnsupported)
    /\ UNCHANGED <<o, ctx, callerCtx, exchange, calls, token, idTokenClaims,
                   userInfoResp, claims>>

Next ==
    \/ \E code \in Codes : AuthenticateCode(code)
    \/ TokenEndpointAnswers
    \/ ExchangeReturns
    \/ UserInfoReturns
    \/ \E username \in Usernames, password \in Passwords : Authenticate(username, password)

Spec == Init /\ [][Next]_vars

\* The same calls under a caller that may cancel its context.
LiveNext == Next \/ CancelCallerContext

\* Exchange returns once it can: when the token endpoint has answered or its
\* context is done.  The endpoint is not obliged to answer, nor the caller to
\* cancel.
LiveSpec == Init /\ [][LiveNext]_vars /\ WF_vars(ExchangeReturns)

----------------------------------------------------------------------------
(* Properties *)

InAuthenticateCode == op.method = "AuthenticateCode"
Returned == pc = "done"
ReturnedIdentity == ret.identity # NoIdentity
Identity == ret.identity[1]

\* The call got as far as resolving the identity from the claim set.
Resolved == InAuthenticateCode /\ Returned /\ ret.err \in {NoErr, ErrNoSub}

\* C1: once the token exchange has succeeded with a token response that has no
\* string id_token extra field, AuthenticateCode has returned the missing
\* id_token error and no identity, and no userinfo call was issued, whatever
\* the provider's configuration.
C1_MissingIDToken ==
    token.kind \in {"no_id_token", "id_token_not_string"} =>
        /\ Returned
        /\ ret.err = ErrNoIDToken
        /\ ~ReturnedIdentity
        /\ calls = <<"token">>

C1_Witness ==
    /\ InAuthenticateCode /\ Returned
    /\ token.kind = "no_id_token"
    /\ o.GetUserInfo /\ o.Verifier = "set" /\ o.Provider = "set"

\* C2: an identity token rejected by the active validation path never yields
\* an identity: with a verifier, an invalid signature ends the call with the
\* verification error; without one, an expired token ends it with the
\* validity error whatever its signature; no userinfo call is made.
C2_RejectedToken ==
    (\/ o.Verifier # "nil" /\ token.sig = "invalid"
     \/ o.Verifier = "nil" /\ token.time = "expired") =>
        /\ Returned
        /\ ret.err = ErrVerify
        /\ ~ReturnedIdentity
        /\ calls = <<"token">>

C2_Witness ==
    /\ InAuthenticateCode /\ Returned
    /\ o.Verifier = "set" /\ token.sig = "invalid" /\ token.time = "valid"
    /\ o.GetUserInfo
    /\ ret.err = ErrVerify

\* C3: every returned identity has a non-empty subject, and a final claim set
\* whose sub is missing or not a string ends the call with the missing
\* subject error and no identity.
C3_NonEmptySubject ==
    /\ ReturnedIdentity /\ InAuthenticateCode => Identity.Sub # ""
    /\ Resolved /\ ("sub" \notin DOMAIN claims \/ claims["sub"].t # "string") =>
           ret.err = ErrNoSub /\ ~ReturnedIdentity

\* C4: once the caller's context is canceled while the token exchange is in
\* flight, AuthenticateCode eventually returns with the token exchange error.
C4_CancelEndsExchange ==
    (pc = "exchange" /\ callerCtx = "canceled") ~> (Returned /\ ret.err = ErrExchange)

\* C5: every step that is a call of Authenticate returns the unsupported
\* method error and no identity, issues no network call and leaves the
\* provider's fields as they were.
C5_AuthenticateUnsupported ==
    [][op'.method = "Authenticate" =>
          /\ ret'.err = ErrUnsupported
          /\ ret'.identity = NoIdentity
          /\ calls' = calls
          /\ calls' = <<>>
          /\ o' = o]_vars

C5_Witness ==
    /\ op.method = "Authenticate" /\ Returned
    /\ op.args = <<"alice", "secret">>
    /\ o.GetUserInfo /\ o.Verifier = "set"

\* C6: when enrichment is enabled and the userinfo step succeeded, the claim
\* set the identity is resolved from holds, for every key of the userinfo
\* body, the userinfo value, and for every other key of the identity token
\* its identity-token value, and no other key, on either sub-path; when
\* enrichment is disabled it is the identity token's claim set.
C6_UserInfoPrecedence ==
    Resolved =>
        IF o.GetUserInfo
        THEN /\ userInfoResp.kind = "response"
             /\ DOMAIN claims = DOMAIN idTokenClaims \cup DOMAIN userInfoResp.body
             /\ \A k \in DOMAIN userInfoResp.body : claims[k] = userInfoResp.body[k]
             /\ \A k \in DOMAIN idTokenClaims \ DOMAIN userInfoResp.body :
                    claims[k] = idTokenClaims[k]
        ELSE /\ userInfoResp = NoUserInfo
             /\ claims = idTokenClaims

C6_Witness ==
    /\ Resolved /\ ReturnedIdentity
    /\ o.GetUserInfo /\ o.Provider = "nil"
    /\ "sub" \in DOMAIN idTokenClaims /\ "sub" \in DOMAIN userInfoResp.body
    /\ idTokenClaims["sub"] = Str("id") /\ userInfoResp.body["sub"] = Str("ui")
    /\ "name" \in DOMAIN idTokenClaims /\ "name" \notin DOMAIN userInfoResp.body
    /\ Identity.Sub = "ui"

\* C7: the email of every returned identity is the string under the
\* configured email key (email when none is configured) of the final claim
\* set, and empty when that claim is absent or not a string: the default
\* key is not consulted when an override is set.
C7_EmailKey ==
    ReturnedIdentity /\ InAuthenticateCode =>
        LET K == IF o.EmailKey = "" THEN "email" ELSE o.EmailKey
        IN  Identity.Email =
                IF K \in DOMAIN claims /\ claims[K].t = "string"
                THEN claims[K].v ELSE ""

C7_Witness ==
    /\ ReturnedIdentity /\ InAuthenticateCode
    /\ o.GetUserInfo /\ o.EmailKey = "mail"
    /\ "mail" \in DOMAIN claims /\ "email" \notin DOMAIN claims
    /\ claims["mail"] = Str("ui")
    /\ Identity.Email = "ui"

\* C8: the preferred username of every returned identity is the string under
\* the configured key (preferred_username when none is configured) if that is
\* a non-empty string, otherwise the string under name, otherwise empty; name
\* is not used when the configured key yields a non-empty string.
C8_PreferredUsername ==
    ReturnedIdentity /\ InAuthenticateCode =>
        LET K == IF o.PreferredUsernameKey = "" THEN "preferred_username"
                 ELSE o.PreferredUsernameKey
            StringAt(k) == IF k \in DOMAIN claims /\ claims[k].t = "string"
                           THEN claims[k].v ELSE ""
        IN  Identity.PreferredUsername =
                IF StringAt(K) # "" THEN StringAt(K) ELSE StringAt("name")

C8_Witness ==
    /\ ReturnedIdentity /\ InAuthenticateCode
    /\ o.PreferredUsernameKey = ""
    /\ "preferred_username" \in DOMAIN claims
    /\ claims["preferred_username"] = Str("")
    /\ "name" \in DOMAIN claims /\ claims["name"] = Str("id")
    /\ Identity.PreferredUsername = "id"

C10_UserInfoFailure ==
    /\ InAuthenticateCode /\ Returned /\ o.GetUserInfo
    /\ \/ userInfoResp.kind \in {"unreachable", "readfail"}
       \/ userInfoResp.kind = "response" /\ userInfoResp.status # "ok"
       \/ userInfoResp.kind = "response" /\ ~userInfoResp.decodable
    => ret.err \in {ErrFetchUI, ErrDecodeUI} /\ ~ReturnedIdentity

====
